---- MODULE Spec2Model ----
(***************************************************************************)
(* Behavioural model of the human-vs-bot mouse movement classifier:        *)
(* extract_features.py (feature extractor and dataset builder loop) and    *)
(* predict.py (predict_movement).                                          *)
(*                                                                         *)
(* Numbers.  Python floats are held as exact reduced fractions <<n, d>>    *)
(* with d > 0.  Timestamps are integer milliseconds, as in the session     *)
(* files.  None is the empty tuple.                                        *)
(***************************************************************************)
EXTENDS Integers, Sequences, FiniteSets, TLC

\* ------------------------------------------------------------------ bounds
MaxLen == 3             \* longest trajectory drawn by the extractor runs
MaxT == 2               \* largest timestamp (ms) of those trajectories
MaxLinePoints == 5      \* longest constant-step line trajectory
MaxSessions == 2        \* longest sessions file the dataset builder reads
NumTrees == 2           \* trees of a forest
MaxRows == 5            \* longest feature table whose labels are drawn freely
MaxClassRows == 6       \* most rows of one class in a table of two blocks
HalfRows == 50          \* rows of each class in the balanced table
MaxRuns == 2            \* runs of train_model.py over the same table
MaxRandom == 1          \* states of the process-wide generator
MaxSeed == 2            \* states the stream of the module random starts in

\* ------------------------------------------------------- exact arithmetic
None == <<>>

Abs(n) == IF n < 0 THEN -n ELSE n

RECURSIVE Gcd(_, _)
Gcd(a, b) == IF b = 0 THEN a ELSE Gcd(b, a % b)

\* The reduced fraction n/d (d # 0), sign carried by the numerator.
Frac(n, d) ==
    LET g == Gcd(Abs(n), Abs(d))
        s == IF d < 0 THEN -1 ELSE 1
    IN  <<(s * n) \div g, (s * d) \div g>>

FAdd(a, b) ==
    LET g == Gcd(a[2], b[2])
    IN  Frac(a[1] * (b[2] \div g) + b[1] * (a[2] \div g), (a[2] \div g) * b[2])

FSub(a, b) == FAdd(a, <<-b[1], b[2]>>)

\* Cross-reduced product, so that no intermediate exceeds the result.
FMul(a, b) ==
    LET g1 == Gcd(Abs(a[1]), b[2])
        g2 == Gcd(Abs(b[1]), a[2])
    IN  <<(a[1] \div g1) * (b[1] \div g2), (a[2] \div g2) * (b[2] \div g1)>>

FDivInt(a, n) == FMul(a, <<1, n>>)

FLess(a, b) == a[1] * b[2] < b[1] * a[2]

\* (n) ** 0.5 for the n this model meets: the positions below are chosen so
\* that every squared displacement is a perfect square.
ISqrt(n) == CHOOSE r \in 0..n : r * r <= n /\ (r + 1) * (r + 1) > n

RECURSIVE FSum(_)
FSum(s) == IF s = <<>> THEN <<0, 1>> ELSE FAdd(s[1], FSum(Tail(s)))

RECURSIVE FMax(_)
FMax(s) ==
    IF Len(s) = 1 THEN s[1]
    ELSE LET m == FMax(Tail(s)) IN IF FLess(s[1], m) THEN m ELSE s[1]

\* --------------------------------------------------- extract_features.py
\* dt of the pair (data[i-1], data[i]) in seconds: (ts[i] - ts[i-1]) / 1000
ElapsedMillis(data, i) == Frac(data[i].t - data[i - 1].t, 1)
Elapsed(data, i) == Frac(data[i].t - data[i - 1].t, 1000)

\* the guard "if dt > 0" that lets a pair contribute a speed sample
KeepsPairNonZero(dt) == dt # <<0, 1>>
KeepsPair(dt) == FLess(<<0, 1>>, dt)

\* ((dx**2 + dy**2)**0.5) / dt
Speed(data, i) ==
    LET dx == data[i].x - data[i - 1].x
        dy == data[i].y - data[i - 1].y
        dt == Elapsed(data, i)
    IN  Frac(ISqrt(dx * dx + dy * dy) * dt[2], dt[1])

\* the loop "for i in range(1, len(xs))", from pair i on (1-based here)
RECURSIVE SpeedsFrom(_, _)
SpeedsFrom(data, i) ==
    IF i > Len(data) THEN <<>>
    ELSE (IF KeepsPair(Elapsed(data, i)) THEN <<Speed(data, i)>> ELSE <<>>)
         \o SpeedsFrom(data, i + 1)

Speeds(data) == SpeedsFrom(data, 2)

\* np.std: the population standard deviation sqrt(mean(|x - mean|^2)).  It
\* is held by its square, the field var; of an empty sequence it is nan
\* (numpy warns and returns nan, it does not raise).
NpStd(speeds) ==
    IF speeds = <<>> THEN [nan |-> TRUE, var |-> <<0, 1>>]
    ELSE LET n == Len(speeds)
             mean == FDivInt(FSum(speeds), n)
             dev2 == [i \in 1..n |->
                         FMul(FSub(speeds[i], mean), FSub(speeds[i], mean))]
         IN  [nan |-> FALSE, var |-> FDivInt(FSum(dev2), n)]

\* np.max raises ValueError on an empty sequence
NpMaxRaises(speeds) == speeds = <<>>
NpMax(speeds) == FMax(speeds)

\* lines 33-34: the duration hint, or the span of the timestamps
SessionDurationFalsy(data, session_duration) ==
    IF session_duration = None \/ session_duration = <<0, 1>>
    THEN IF Len(data) > 1 THEN Frac(data[Len(data)].t - data[1].t, 1000)
         ELSE <<0, 1>>
    ELSE session_duration
SessionDuration(data, session_duration) ==
    IF session_duration = None
    THEN IF Len(data) > 1 THEN Frac(data[Len(data)].t - data[1].t, 1000)
         ELSE <<0, 1>>
    ELSE session_duration

NoFeatures ==
    [std_speed |-> [nan |-> TRUE, var |-> <<0, 1>>], max_speed |-> None,
     num_points |-> 0, session_duration |-> None]

\* The outcome of one call: raised is the exception that leaves the function
\* ("none" when it returns), features the returned dictionary, samples the
\* length of the local list speeds and duration the local session_duration
\* after line 34.
extract_features(data, session_duration) ==
    LET speeds == Speeds(data)
        duration == SessionDuration(data, session_duration)
        std == NpStd(speeds)
    IN  IF NpMaxRaises(speeds)
        THEN [raised |-> "ValueError", features |-> NoFeatures,
              samples |-> Len(speeds), duration |-> duration]
        ELSE [raised |-> "none",
              features |-> [std_speed |-> std, max_speed |-> NpMax(speeds),
                            num_points |-> Len(data),
                            session_duration |-> duration],
              samples |-> Len(speeds), duration |-> duration]

NotRun ==
    [raised |-> "pending", features |-> NoFeatures, samples |-> 0,
     duration |-> None]

\* -------------------------------------------------------------- inputs
\* Positions whose mutual distances are whole numbers (0, 3, 4, 5).
Positions == {<<0, 0>>, <<3, 0>>, <<3, 4>>}
Points == {[x |-> p[1], y |-> p[2], t |-> t] : p \in Positions, t \in 0..MaxT}
Trajectories == UNION {[1..n -> Points] : n \in 0..MaxLen}

\* Trajectories with a constant time step and a constant displacement.
LineSteps == {1, 7, 100}
LineDisplacements == {<<10, 0>>, <<3, 4>>, <<0, 0>>, <<-6, 8>>}
LineStarts == {0, 50}
Line(n, t0, step, d) ==
    [i \in 1..n |-> [x |-> (i - 1) * d[1], y |-> (i - 1) * d[2],
                     t |-> t0 + (i - 1) * step]]
LineTrajectories ==
    {Line(n, t0, step, d) : n \in 2..MaxLinePoints, t0 \in LineStarts,
                            step \in LineSteps, d \in LineDisplacements}

Hints == {None, <<0, 1>>, <<5, 2>>}

\* ------------------------------------- extract_features.py, builder loop
\* A session record of data/all_sessions.json.  has_metadata tells whether
\* the record has the key 'metadata'; session_duration is the value of
\* metadata['session_duration'], None when that key is missing.
Session(id, type, has_md, dur, movements) ==
    [session_id |-> id, type |-> type, has_metadata |-> has_md,
     session_duration |-> dur, movements |-> movements]

\* line 72: features['label'] = 1 if session_type == 'bot' else 0
Label(session_type) == IF session_type = "bot" THEN 1 ELSE 0

Row(features, label, session_id) ==
    [std_speed |-> features.std_speed, max_speed |-> features.max_speed,
     num_points |-> features.num_points,
     session_duration |-> features.session_duration,
     label |-> label, session_id |-> session_id]

NoRow == Row(NoFeatures, 0, 0)

\* the keys of a row in the order they are inserted: the dictionary of
\* lines 36-41, then 'label' (line 72) and 'session_id' (line 73)
RowKeys ==
    <<"std_speed", "max_speed", "num_points", "session_duration", "label",
      "session_id">>

\* line 77: pd.DataFrame(features_data) takes its columns from the keys of
\* the dictionaries; a frame built from no row has no column
DataFrameColumns(features_data) ==
    IF features_data = <<>> THEN <<>> ELSE RowKeys

\* line 74: features_data.append(features)
AppendRowFront(features_data, row) == <<row>> \o features_data
AppendRow(features_data, row) == Append(features_data, row)

\* lines 66-73, the body of the loop for one session: the exception that
\* leaves it ("none" when the row is built), the row, and the local
\* session_duration of line 68 (None when line 68 raised).
BuildRow(session) ==
    IF ~session.has_metadata
    THEN [raised |-> "KeyError", row |-> NoRow, session_duration |-> None,
          called |-> FALSE]
    ELSE LET ext == extract_features(session.movements,
                                     session.session_duration)
         IN  [raised |-> ext.raised,
              row |-> IF ext.raised = "none"
                      THEN Row(ext.features, Label(session.type),
                               session.session_id)
                      ELSE NoRow,
              session_duration |-> session.session_duration,
              called |-> TRUE]

NoFile == [exists |-> FALSE, content |-> <<>>]
File(content) == [exists |-> TRUE, content |-> content]

BuilderIdle ==
    [pc |-> "idle", i |-> 0, features_data |-> <<>>, raised |-> "none",
     session_duration |-> None, called |-> FALSE]

\* ------------------------------------------------------------ predict.py
\* The fitted forest of models/mouse_model.pkl: each tree is held as one
\* split on a column of the input vector X (1 = std_speed, 2 = max_speed,
\* 3 = num_points, 4 = session_duration) with the bot fraction of each leaf.
Tree(col, thr, le, gt) == [col |-> col, thr |-> thr, le |-> le, gt |-> gt]

\* lines 62-63: X = [[std_speed, max_speed, num_points, session_duration]]
InputColumns ==
    <<"std_speed", "max_speed", "num_points", "session_duration">>
InputVector(features) ==
    [j \in 1..Len(InputColumns) |->
        IF InputColumns[j] = "num_points" THEN <<features.num_points, 1>>
        ELSE features[InputColumns[j]]]

\* X[col] <= thr; the standard deviation is compared by its square
ColumnLeq(X, col, thr) ==
    IF col = 1 THEN ~FLess(FMul(thr, thr), X[1].var)
    ELSE ~FLess(thr, X[col])

TreeProba(tree, X) ==
    IF ColumnLeq(X, tree.col, tree.thr) THEN tree.le ELSE tree.gt

\* model.predict_proba(X)[0]: the mean of the trees' class probabilities,
\* <<P(human), P(bot)>>
PredictProba(trees, X) ==
    LET bot == FDivInt(FSum([k \in 1..Len(trees) |-> TreeProba(trees[k], X)]),
                       Len(trees))
    IN  <<FSub(<<1, 1>>, bot), bot>>

\* model.predict(X)[0]: the class of the largest mean probability, the
\* first one (0) on a tie
ModelPredict(trees, X) ==
    LET p == PredictProba(trees, X) IN IF FLess(p[1], p[2]) THEN 1 ELSE 0

\* lines 70 and 77: probability * 100 and max(human_confidence, bot_confidence)
Percent(p) == FMul(p, <<100, 1>>)
ConfidenceOfBot(probability) == Percent(probability[2])
Confidence(probability) ==
    LET human_confidence == Percent(probability[1])
        bot_confidence == Percent(probability[2])
    IN  IF FLess(human_confidence, bot_confidence) THEN bot_confidence
        ELSE human_confidence

\* The input document: a bare list of points or a session record.
BareDoc(movements) ==
    [shape |-> "list", has_metadata |-> FALSE, session_duration |-> None,
     movements |-> movements]
RecordDoc(session) ==
    [shape |-> "record", has_metadata |-> session.has_metadata,
     session_duration |-> session.session_duration,
     movements |-> session.movements]

\* lines 36-41: the movements and the duration hint of either shape;
\* data.get('metadata', {}).get('session_duration', None)
DocHintDefault(data) ==
    IF data.shape = "record"
    THEN IF data.has_metadata /\ data.session_duration # None
         THEN data.session_duration
         ELSE <<5, 2>>
    ELSE None
DocHint(data) ==
    IF data.shape = "record" /\ data.has_metadata THEN data.session_duration
    ELSE None

\* line 44: if not movements or len(movements) < 2
InvalidMovementsEmpty(movements) == movements = <<>>
InvalidMovements(movements) == movements = <<>> \/ Len(movements) < 2

NoProba == <<None, None>>

PredictOut(ret, raised, error, label, conf, hint, ext, proba, queried) ==
    [ret |-> ret, raised |-> raised, error |-> error, label |-> label,
     confidence |-> conf, session_duration |-> hint,
     extracted |-> ext.raised # "pending", features |-> ext.features,
     probability |-> proba, queried |-> queried]

PredictPending ==
    PredictOut("pending", "none", "none", -1, None, None, NotRun, NoProba,
               FALSE)

\* a model file that joblib.dump has opened and not yet written: joblib.load
\* of it raises EOFError, which line 23 (except FileNotFoundError) lets pass
Truncated(file) == file.exists /\ file.content = <<>>

\* lines 19-33: joblib.load(model_file) in its try block, then
\* open(data_file) in the next one; each FileNotFoundError prints which file
\* was not found and returns (None, None)
MissingArtifactDataFirst(data_file, model_file) ==
    IF ~data_file.exists THEN "data file not found"
    ELSE IF ~model_file.exists THEN "model file not found"
    ELSE "none"
MissingArtifact(data_file, model_file) ==
    IF ~model_file.exists THEN "model file not found"
    ELSE IF ~data_file.exists THEN "data file not found"
    ELSE "none"

\* predict_movement(data_file): ret is "decision" for a returned
\* (prediction, confidence), "none" for a returned (None, None) and "raise"
\* when an exception leaves the function; error is the message printed.
predict_movement(data_file, model_file) ==
    IF Truncated(model_file)
    THEN PredictOut("raise", "EOFError", "none", -1, None, None, NotRun,
                    NoProba, FALSE)
    ELSE IF MissingArtifact(data_file, model_file) # "none"
    THEN PredictOut("none", "none", MissingArtifact(data_file, model_file),
                    -1, None, None, NotRun, NoProba, FALSE)
    ELSE
    LET data == data_file.content
        movements == data.movements
        session_duration == DocHint(data)
    IN  IF InvalidMovements(movements)
        THEN PredictOut("none", "none", "need at least 2 movement points",
                        -1, None, session_duration, NotRun, NoProba, FALSE)
        ELSE
        LET ext == extract_features(movements, session_duration)
            X == InputVector(ext.features)
            trees == model_file.content
            probability == PredictProba(trees, X)
        IN  IF ext.raised # "none"
            THEN PredictOut("raise", ext.raised, "none", -1, None,
                            session_duration, ext, NoProba, FALSE)
            ELSE PredictOut("decision", "none", "none",
                            ModelPredict(trees, X), Confidence(probability),
                            session_duration, ext, probability, TRUE)

\* ---------------------------------------------------------- the JSON text
\* A JSON object as it is written: its members <<key, value>> in the order
\* of the text.  The data file is a list of point objects or one object.
JsonObject(keys, record) == [j \in 1..Len(keys) |-> <<keys[j], record[keys[j]]>>]

JsonList(items) == [kind |-> "list", members |-> <<>>, items |-> items]
JsonRecord(members) == [kind |-> "object", members |-> members, items |-> <<>>]

\* json.load makes a dict of an object: a value is found by its key
Has(obj, key) == \E j \in 1..Len(obj) : obj[j][1] = key
Get(obj, key) == obj[CHOOSE j \in 1..Len(obj) : obj[j][1] = key][2]

\* extract_features.py line 23: p['x'], p['y'], p['t']
PointByPosition(obj) == [x |-> obj[1][2], y |-> obj[2][2], t |-> obj[3][2]]
Point(obj) == [x |-> Get(obj, "x"), y |-> Get(obj, "y"), t |-> Get(obj, "t")]

\* predict.py lines 29-41: json.load(f), then the branch on 'movements'
LoadJson(text) ==
    IF text.kind = "object" /\ Has(text.members, "movements")
    THEN LET data == text.members
             movements == Get(data, "movements")
             metadata == IF Has(data, "metadata") THEN Get(data, "metadata")
                         ELSE <<>>
         IN  [shape |-> "record", has_metadata |-> Has(data, "metadata"),
              session_duration |->
                  IF Has(metadata, "session_duration")
                  THEN Get(metadata, "session_duration") ELSE None,
              movements |->
                  [i \in 1..Len(movements) |-> Point(movements[i])]]
    ELSE [shape |-> "list", has_metadata |-> FALSE,
          session_duration |-> None,
          movements |-> [i \in 1..Len(text.items) |-> Point(text.items[i])]]

\* the text of a list of points, and of a session record, under an order
\* of the keys of the points and of the members of the record
PointsText(movements, keys) ==
    [i \in 1..Len(movements) |-> JsonObject(keys, movements[i])]

MemberText(session, key, keys) ==
    CASE key = "session_id" -> session.session_id
      [] key = "type" -> session.type
      [] key = "movements" -> PointsText(session.movements, keys)
      [] key = "metadata" ->
            IF session.session_duration = None THEN <<>>
            ELSE <<<<"session_duration", session.session_duration>>>>

RecordText(session, members, keys) ==
    JsonRecord([j \in 1..Len(members) |->
                   <<members[j], MemberText(session, members[j], keys)>>])

\* ---------------------------------------------------------- train_model.py
\* line 19: df = pd.read_csv('data/features.csv'), the header and the rows
ReadCsv(file, columns) == [columns |-> columns, rows |-> file.content]

\* line 26: df.drop(columns=['label', 'session_id']) keeps the other columns
\* in the order of the table
DropColumnsSorted(columns) ==
    SelectSeq(<<"max_speed", "num_points", "session_duration", "std_speed">>,
              LAMBDA c : \E j \in 1..Len(columns) : columns[j] = c)
DropColumns(columns) ==
    SelectSeq(columns, LAMBDA c : c \notin {"label", "session_id"})

HasColumn(columns, c) == \E j \in 1..Len(columns) : columns[j] = c

\* sqrt of a fraction whose numerator and denominator are perfect squares
FSqrt(f) == Frac(ISqrt(f[1]), ISqrt(f[2]))

\* the number a row of the table holds in a column; click_count is a column
\* that is not a feature of the extractor
Number(row, c) ==
    IF c = "std_speed" THEN FSqrt(row.std_speed.var)
    ELSE IF c = "max_speed" THEN row.max_speed
    ELSE IF c = "num_points" THEN <<row.num_points, 1>>
    ELSE IF c = "session_duration" THEN row.session_duration
    ELSE IF c = "click_count" THEN <<1, 1>>
    ELSE <<row.session_id, 1>>

\* one row of X: its numbers in the order of X.columns; like the input
\* vector of the predictor the first position is held by its square
XRow(row, columns) ==
    [j \in 1..Len(columns) |->
        IF j = 1
        THEN [nan |-> FALSE,
              var |-> FMul(Number(row, columns[1]), Number(row, columns[1]))]
        ELSE Number(row, columns[j])]

\* ------------------------------------------------------- train_test_split
\* line 31: test_size=0.3, random_state=42
TestSizeTenths == 3
RandomSeed == 42

\* check_random_state(seed): an int seed makes a generator of its own,
\* whatever the process-wide generator has drawn before
CheckRandomStateGlobal(seed, global) == global
CheckRandomState(seed, global) == seed

\* n_test = ceil(test_size * n), n_train = n - n_test
NTest(n) == (TestSizeTenths * n + 9) \div 10
NTrain(n) == n - NTest(n)

\* the positions of the rows of class c, ascending
ClassIndices(y, c) ==
    SelectSeq([i \in 1..Len(y) |-> i], LAMBDA i : y[i] = c)

\* the classes of y, ascending (np.unique)
Classes(y) ==
    SelectSeq(<<0, 1>>, LAMBDA c : \E i \in 1..Len(y) : y[i] = c)

ClassCounts(y) ==
    [k \in 1..Len(Classes(y)) |-> Len(ClassIndices(y, Classes(y)[k]))]

\* StratifiedShuffleSplit: the ValueError cases of a split of y
SplitRaises(y) ==
    \/ NTrain(Len(y)) = 0
    \/ \E k \in 1..Len(Classes(y)) : ClassCounts(y)[k] < 2
    \/ NTrain(Len(y)) < Len(Classes(y))
    \/ NTest(Len(y)) < Len(Classes(y))

\* _approximate_mode(class_counts, n_draws, rng): the floor of each class's
\* share, the rest given to the largest remainders, a tie settled by rng
ApproximateMode(counts, n_draws, rng) ==
    LET n == FSum([k \in 1..Len(counts) |-> <<counts[k], 1>>])[1]
        floored == [k \in 1..Len(counts) |-> (counts[k] * n_draws) \div n]
        rest == [k \in 1..Len(counts) |-> (counts[k] * n_draws) % n]
        need == n_draws - FSum([k \in 1..Len(counts) |-> <<floored[k], 1>>])[1]
        first == IF Len(counts) = 1 THEN 1
                 ELSE IF rest[1] > rest[2] THEN 1
                 ELSE IF rest[2] > rest[1] THEN 2
                 ELSE (rng % 2) + 1
    IN  [k \in 1..Len(counts) |->
            IF need > 0 /\ k = first THEN floored[k] + need ELSE floored[k]]

\* rng.permutation(s): a rotation of s stands for the generator's shuffle,
\* the same for the same generator
Permutation(rng, s) ==
    IF s = <<>> THEN <<>>
    ELSE [j \in 1..Len(s) |-> s[((j - 1 + rng) % Len(s)) + 1]]

RECURSIVE Flatten(_)
Flatten(ss) == IF ss = <<>> THEN <<>> ELSE ss[1] \o Flatten(Tail(ss))

\* the row positions of the two parts: of each class, shuffled, the first
\* n_i rows train and the next t_i rows test; each part is shuffled again
SplitTakeAll(y, rng) ==
    LET all == Permutation(rng, [i \in 1..Len(y) |-> i])
    IN  [train |-> SubSeq(all, 1, NTrain(Len(y))), test |-> all]
Split(y, rng) ==
    LET cs == Classes(y)
        n_i == ApproximateMode(ClassCounts(y), NTrain(Len(y)), rng)
        perm == [k \in 1..Len(cs) |->
                    Permutation(rng, ClassIndices(y, cs[k]))]
        train == Flatten([k \in 1..Len(cs) |-> SubSeq(perm[k], 1, n_i[k])])
        test == Flatten([k \in 1..Len(cs) |->
                            SubSeq(perm[k], n_i[k] + 1, Len(perm[k]))])
    IN  [train |-> Permutation(rng, train), test |-> Permutation(rng, test)]

\* ------------------------------------------------- RandomForestClassifier
\* the rows of X on one side of a split, and the bot fraction of a set of
\* rows (that of all rows for an empty side)
Side(X, col, thr, leq) ==
    {i \in 1..Len(X) : ColumnLeq(X[i], col, thr) = leq}

BotFraction(y, rows) ==
    LET of == IF rows = {} THEN 1..Len(y) ELSE rows
    IN  Frac(Cardinality({i \in of : y[i] = 1}), Cardinality(of))

\* one fitted tree: the generator picks a column and a row of the training
\* set, the value of that row is the threshold, each leaf holds the bot
\* fraction of the training rows it receives
FitTree(X, y, rng, k) ==
    LET col == ((rng + k) % Len(X[1])) + 1
        r == X[((rng + k) % Len(X)) + 1]
        thr == IF col = 1 THEN FSqrt(r[1].var) ELSE r[col]
    IN  Tree(col, thr, BotFraction(y, Side(X, col, thr, TRUE)),
             BotFraction(y, Side(X, col, thr, FALSE)))

\* lines 38-39: model.fit(X_train, y_train); the NumTrees trees of the model
\* stand for the n_estimators=100 of the program
Fit(X, y, rng) == [k \in 1..NumTrees |-> FitTree(X, y, rng, k)]

\* model.feature_importances_: the share of the trees that split on a column
FeatureImportances(model, ncols) ==
    [c \in 1..ncols |->
        Frac(Cardinality({k \in 1..Len(model) : model[k].col = c}),
             Len(model))]

\* lines 44-47: y_pred against y_test, as the counts cm[actual][predicted]
\* and as accuracy_score
ConfusionMatrix(y_test, y_pred) ==
    [a \in 0..1 |-> [p \in 0..1 |->
        Cardinality({i \in 1..Len(y_test) : y_test[i] = a /\ y_pred[i] = p})]]

AccuracyScore(y_test, y_pred) ==
    Frac(Cardinality({i \in 1..Len(y_test) : y_test[i] = y_pred[i]}),
         Len(y_test))

\* ------------------------------------------------------------ train_model
NoSplit == [train |-> <<>>, test |-> <<>>]

TrainOut(pc, ret, raised, columns, split, model, accuracy, cm, importance) ==
    [pc |-> pc, ret |-> ret, raised |-> raised, columns |-> columns,
     split |-> split, model |-> model, accuracy |-> accuracy, cm |-> cm,
     importance |-> importance]

\* an exception of lines 17-62, caught at lines 83-90: (None, None)
TrainFailed(raised, columns, split, model) ==
    TrainOut("done", "none", raised, columns, split, model, None, <<>>, <<>>)

\* lines 17-62 of train_model(): read the table, split it, fit the forest
\* and score it on the test part; pc "save" when all of it succeeded
TrainCompute(file, columns, global) ==
    IF ~file.exists
    THEN TrainFailed("FileNotFoundError", <<>>, NoSplit, <<>>)
    ELSE IF columns = <<>>
    THEN TrainFailed("EmptyDataError", <<>>, NoSplit, <<>>)
    ELSE IF ~HasColumn(columns, "label") \/ ~HasColumn(columns, "session_id")
    THEN TrainFailed("KeyError", <<>>, NoSplit, <<>>)
    ELSE
    LET df == ReadCsv(file, columns)
        X_columns == DropColumns(df.columns)
        X == [i \in 1..Len(df.rows) |-> XRow(df.rows[i], X_columns)]
        y == [i \in 1..Len(df.rows) |-> df.rows[i].label]
    IN  IF SplitRaises(y)
        THEN TrainFailed("ValueError", X_columns, NoSplit, <<>>)
        ELSE
        LET split == Split(y, CheckRandomState(RandomSeed, global))
            X_train == [j \in 1..Len(split.train) |-> X[split.train[j]]]
            y_train == [j \in 1..Len(split.train) |-> y[split.train[j]]]
            X_test == [j \in 1..Len(split.test) |-> X[split.test[j]]]
            y_test == [j \in 1..Len(split.test) |-> y[split.test[j]]]
            model == Fit(X_train, y_train,
                         CheckRandomState(RandomSeed, global))
            y_pred == [j \in 1..Len(X_test) |-> ModelPredict(model, X_test[j])]
        IN  IF Len(Classes(y_train)) < 2
            THEN TrainFailed("IndexError", X_columns, split, model)
            ELSE TrainOut("save", "pending", "none", X_columns, split, model,
                          AccuracyScore(y_test, y_pred),
                          ConfusionMatrix(y_test, y_pred),
                          FeatureImportances(model, Len(X_columns)))

\* what a finished run of train_model() reported, and the state the
\* process-wide generator had in that run
LogEntry(t, global) ==
    [ret |-> t.ret, raised |-> t.raised, split |-> t.split, cm |-> t.cm,
     accuracy |-> t.accuracy, importance |-> t.importance,
     global |-> global]

\* ----------------------------------------------------- test_predictions.py
EvalOut(ret, raised, accuracy, cm, tested) ==
    [ret |-> ret, raised |-> raised, accuracy |-> accuracy, cm |-> cm,
     tested |-> tested]

\* an exception of lines 16-76, caught at lines 81-83: (None, None)
EvalFailed(raised) == EvalOut("none", raised, None, <<>>, FALSE)

\* comprehensive_evaluation(): load the sessions, the model and the table,
\* predict every row of the table and score the predictions
comprehensive_evaluation(sessions_file, model_file, features_file, columns) ==
    IF ~sessions_file.exists \/ ~model_file.exists
    THEN EvalFailed("FileNotFoundError")
    ELSE IF Truncated(model_file)
    THEN EvalFailed("EOFError")
    ELSE IF ~features_file.exists
    THEN EvalFailed("FileNotFoundError")
    ELSE IF columns = <<>>
    THEN EvalFailed("EmptyDataError")
    ELSE IF ~HasColumn(columns, "label") \/ ~HasColumn(columns, "session_id")
    THEN EvalFailed("KeyError")
    ELSE
    LET features_df == ReadCsv(features_file, columns)
        model == model_file.content
        X_columns == DropColumns(features_df.columns)
        X == [i \in 1..Len(features_df.rows) |->
                 XRow(features_df.rows[i], X_columns)]
        y_true == [i \in 1..Len(features_df.rows) |->
                      features_df.rows[i].label]
        y_pred == [i \in 1..Len(X) |-> ModelPredict(model, X[i])]
    IN  IF Len(Classes(y_true)) < 2
        THEN EvalFailed("ValueError")
        ELSE EvalOut("metrics", "none", AccuracyScore(y_true, y_pred),
                     ConfusionMatrix(y_true, y_pred), FALSE)

\* line 21: joblib.load opens the model file for reading and leaves it as
\* it is
LoadedForWriting(file) == [exists |-> TRUE, content |-> <<>>]
Loaded(file) == file

\* lines 97-98: next(s for s in all_sessions if s['type'] == type)
HasSessionOfType(all_sessions, type) ==
    \E i \in 1..Len(all_sessions) : all_sessions[i].type = type
FirstSessionOfType(all_sessions, type) ==
    all_sessions[CHOOSE i \in 1..Len(all_sessions) :
                    /\ all_sessions[i].type = type
                    /\ \A j \in 1..(i - 1) : all_sessions[j].type # type]

\* lines 103 and 115: session['metadata']['session_duration'] printed with
\* three decimals, a KeyError when either key is missing
DurationRaises(session) ==
    ~session.has_metadata \/ session.session_duration = None

\* test_individual_sessions(): the test file written last and the outcome
\* of the last call of predict_movement, if any; every exception is caught
\* at lines 126-127, also the TypeError of lines 110 and 122 on a
\* confidence of None
test_individual_sessions(sessions_file, model_file, data_file, out) ==
    IF \/ ~sessions_file.exists
       \/ ~HasSessionOfType(sessions_file.content, "human")
       \/ ~HasSessionOfType(sessions_file.content, "bot")
    THEN [data_file |-> data_file, out |-> out]
    ELSE
    LET bot_session == FirstSessionOfType(sessions_file.content, "bot")
        human_session == FirstSessionOfType(sessions_file.content, "human")
        test_bot == File(RecordDoc(bot_session))
        test_human == File(RecordDoc(human_session))
        bot_out == predict_movement(test_bot, model_file)
    IN  IF DurationRaises(bot_session)
        THEN [data_file |-> data_file, out |-> out]
        ELSE IF bot_out.ret # "decision" \/ DurationRaises(human_session)
        THEN [data_file |-> test_bot, out |-> bot_out]
        ELSE [data_file |-> test_human,
              out |-> predict_movement(test_human, model_file)]

\* ------------------------------------------------------------------ demo.py
\* lines 83-105: the scripts main() runs, in the order it runs them
Scripts ==
    <<"generate_sessions.py", "extract_features.py", "train_model.py",
      "test_predictions.py", "visualize_data.py">>

DemoOut(pc, ran, rcs, banner) ==
    [pc |-> pc, ran |-> ran, rcs |-> rcs, banner |-> banner]

\* lines 32-45: run_script returns True for the return code 0 and False for
\* any other
RunScriptAnyCode(returncode) == TRUE
RunScript(returncode) == returncode = 0

\* the return code of a script that has run to its end: extract_features.py
\* exits 1 without its sessions file and dies of an exception of its loop
\* or of its report; train_model.py and test_predictions.py catch what
\* they raise and end with 0
ReturnCode(script, b) ==
    IF script = "extract_features.py" /\ b.pc # "done" THEN 1 ELSE 0

\* ------------------------------------------------------ generate_sessions.py
\* The module random is a seeded stream: the k-th draw of a run is a function
\* of the state rng the stream started in.  Draw is that draw, taken from
\* the values listed for the call: the ends of its range, and a value
\* between them where the call draws a real number.
Draw(rng, k, values) ==
    values[(((k + rng) \div 3 + (k * k) \div 7 + k \div 5) % Len(values)) + 1]

\* round(): to the nearest integer, a half to the even one
Round(f) ==
    LET fl == f[1] \div f[2]
        r == f[1] - fl * f[2]
    IN  IF 2 * r < f[2] THEN fl
        ELSE IF 2 * r > f[2] THEN fl + 1
        ELSE IF fl % 2 = 0 THEN fl ELSE fl + 1

\* line 33: max(0, min(limit, x))
Clamp(f, limit) ==
    IF FLess(f, <<0, 1>>) THEN <<0, 1>>
    ELSE IF FLess(<<limit, 1>>, f) THEN <<limit, 1>>
    ELSE f

\* the draws of generate_human_session
HumanNumPoints == <<80, 200>>                           \* line 19
HumanOrigin == <<50, 300>>                               \* line 15
StartOffsets == <<-10000, 10000>>                       \* lines 16 and 58
Velocities == <<<<-2, 1>>, <<0, 1>>, <<2, 1>>>>         \* line 22
Turns == <<<<-1, 1>>, <<0, 1>>, <<1, 1>>>>              \* lines 27-28
Jitters == <<<<-1, 2>>, <<0, 1>>, <<1, 2>>>>            \* line 30
Chance == <<FALSE, TRUE>>          \* random.random() < p, lines 26 and 36

\* line 36: randint(200, 800) in a pause and randint(8, 50) otherwise
HumanTimeDeltaFromZero(rng, k, pause) ==
    IF pause THEN Draw(rng, k, <<200, 800>>) ELSE Draw(rng, k, <<0, 50>>)
HumanTimeDelta(rng, k, pause) ==
    IF pause THEN Draw(rng, k, <<200, 800>>) ELSE Draw(rng, k, <<8, 50>>)

\* the draws of generate_bot_session
PatternTypes == {"linear", "curve", "step", "zigzag"}   \* line 56
BotNumPoints == <<30, 80>>                              \* line 61
TimeIntervals == <<50, 150>>                            \* line 62
BotOrigin == <<100, 200>>                                \* line 57
StepChoices == <<20, -20, 0>>                           \* lines 84-85

\* the locals of a generator call; k counts the draws made so far
GenIdle ==
    [pc |-> "idle", type |-> "none", session_id |-> 0, rng |-> 0, k |-> 0,
     start_time |-> 0, num_points |-> 0, i |-> 0, x |-> 0, y |-> 0,
     velocity_x |-> <<0, 1>>, velocity_y |-> <<0, 1>>, current_time |-> 0,
     pattern_type |-> "none", time_interval |-> 0, end_x |-> 0, end_y |-> 0,
     control_x |-> 0, control_y |-> 0, amplitude |-> 0, data |-> <<>>,
     session |-> None]

\* lines 14-22: the locals of generate_human_session before its loop
HumanLocals(session_id, rng, now, num_points) ==
    [GenIdle EXCEPT
       !.pc = "human loop", !.type = "human", !.session_id = session_id,
       !.rng = rng, !.k = 6,
       !.x = <<Draw(rng, 0, HumanOrigin), 1>>,
       !.y = <<Draw(rng, 1, HumanOrigin), 1>>,
       !.start_time = now + Draw(rng, 2, StartOffsets),
       !.num_points = num_points,
       !.current_time = now + Draw(rng, 2, StartOffsets),
       !.velocity_x = Draw(rng, 4, Velocities),
       !.velocity_y = Draw(rng, 5, Velocities)]

\* lines 24-39: one pass of the loop of generate_human_session
HumanPoint(g) ==
    LET turn == Draw(g.rng, g.k, Chance)
        velocity_x == IF turn
                      THEN FAdd(g.velocity_x, Draw(g.rng, g.k + 1, Turns))
                      ELSE g.velocity_x
        velocity_y == IF turn
                      THEN FAdd(g.velocity_y, Draw(g.rng, g.k + 2, Turns))
                      ELSE g.velocity_y
        k == IF turn THEN g.k + 3 ELSE g.k + 1
        jitter_x == Draw(g.rng, k, Jitters)
        jitter_y == Draw(g.rng, k + 1, Jitters)
        x == Clamp(FAdd(g.x, FAdd(velocity_x, jitter_x)), 800)
        y == Clamp(FAdd(g.y, FAdd(velocity_y, jitter_y)), 600)
        pause == Draw(g.rng, k + 2, Chance)
        time_delta == HumanTimeDelta(g.rng, k + 3, pause)
        current_time == g.current_time + time_delta
    IN  [g EXCEPT !.k = k + 4, !.i = g.i + 1,
                  !.velocity_x = velocity_x, !.velocity_y = velocity_y,
                  !.x = x, !.y = y, !.current_time = current_time,
                  !.data = Append(g.data, [x |-> Round(x), y |-> Round(y),
                                           t |-> current_time])]

\* lines 41-51: the session generate_human_session returns; the metadata it
\* generates carries round((current_time - start_time) / 1000, 3)
HumanSession(g) ==
    Session(g.session_id, "human", TRUE,
            Frac(g.current_time - g.start_time, 1000), g.data)

\* lines 56-62 and the draws that open each pattern (lines 65, 73-74, 89)
BotLocals(session_id, rng, now, pattern_type, num_points, time_interval) ==
    [GenIdle EXCEPT
       !.pc = "bot loop", !.type = "bot", !.session_id = session_id,
       !.rng = rng,
       !.k = CASE pattern_type = "linear" -> 8
               [] pattern_type = "curve" -> 10
               [] pattern_type = "step" -> 6
               [] OTHER -> 8,
       !.pattern_type = pattern_type,
       !.x = Draw(rng, 1, BotOrigin),
       !.y = Draw(rng, 2, BotOrigin),
       !.start_time = now + Draw(rng, 3, StartOffsets),
       !.num_points = num_points,
       !.time_interval = time_interval,
       !.end_x = CASE pattern_type = "linear" -> Draw(rng, 6, <<300, 600>>)
                   [] pattern_type = "curve" -> Draw(rng, 8, <<400, 600>>)
                   [] OTHER -> 0,
       !.end_y = CASE pattern_type = "linear" -> Draw(rng, 7, <<300, 500>>)
                   [] pattern_type = "curve" -> Draw(rng, 9, <<300, 500>>)
                   [] OTHER -> 0,
       !.control_x = IF pattern_type = "curve"
                     THEN Draw(rng, 6, <<200, 400>>) ELSE 0,
       !.control_y = IF pattern_type = "curve"
                     THEN Draw(rng, 7, <<200, 400>>) ELSE 0,
       !.amplitude = IF pattern_type = "zigzag"
                     THEN Draw(rng, 6, <<20, 50>>) ELSE 0]

\* lines 68-69: int(x + (end - x) * progress) with progress = i / (n - 1),
\* in exact arithmetic; every term is positive, so int() is the floor
Linear(x, end, i, n) == x + ((end - x) * i) \div (n - 1)

\* lines 76-79: the quadratic curve at t = i / (n - 1)
Curve(x, control, end, i, n) ==
    ((n - 1 - i) * (n - 1 - i) * x + 2 * (n - 1 - i) * i * control
       + i * i * end) \div ((n - 1) * (n - 1))

\* line 91: math.sin(i * frequency), as twice its value: the model's wave
\* has the range of the sine and takes its ends, not its period
Sine2(i) == <<0, 1, 2, 1, 0, -1, -2, -1>>[(i % 8) + 1]
Zigzag(y, amplitude, i) == (2 * y + amplitude * Sine2(i)) \div 2

\* lines 66-70, 75-79, 82-86 and 90-92: pass i of the loop of the pattern
BotPoint(g) ==
    LET i == g.i
        n == g.num_points
        t == g.start_time + i * g.time_interval
        stepped == g.pattern_type = "step" /\ i % 10 = 0
        x == IF stepped THEN g.x + Draw(g.rng, g.k, StepChoices) ELSE g.x
        y == IF stepped THEN g.y + Draw(g.rng, g.k + 1, StepChoices) ELSE g.y
        point ==
           CASE g.pattern_type = "linear" ->
                   [x |-> Linear(g.x, g.end_x, i, n),
                    y |-> Linear(g.y, g.end_y, i, n), t |-> t]
             [] g.pattern_type = "curve" ->
                   [x |-> Curve(g.x, g.control_x, g.end_x, i, n),
                    y |-> Curve(g.y, g.control_y, g.end_y, i, n), t |-> t]
             [] g.pattern_type = "step" -> [x |-> x, y |-> y, t |-> t]
             [] OTHER ->
                   [x |-> g.x + i * 5, y |-> Zigzag(g.y, g.amplitude, i),
                    t |-> t]
    IN  [g EXCEPT !.i = i + 1, !.x = x, !.y = y,
                  !.k = IF stepped THEN g.k + 2 ELSE g.k,
                  !.data = Append(g.data, point)]

\* lines 94-104: the session generate_bot_session returns
BotSession(g) ==
    Session(g.session_id, "bot", TRUE,
            IF g.data # <<>>
            THEN Frac(g.data[Len(g.data)].t - g.start_time, 1000)
            ELSE <<1, 2>>,
            g.data)

\* ----------------------------------------------------------------- state
VARIABLES
    exData,         \* argument data of the extract_features call
    exHint,         \* argument session_duration of that call
    exOut,          \* its outcome, NotRun before the call
    sessionsFile,   \* data/all_sessions.json
    builder,        \* the dataset builder script: pc, loop index, locals
    csvFile,        \* data/features.csv
    modelFile,      \* models/mouse_model.pkl
    dataFile,       \* the data_file given to predict_movement
    pout,           \* the outcome of predict_movement, PredictPending before
    csvColumns,     \* the header line of data/features.csv
    dataJson,       \* the text of the data_file, keys in their written order
    trainer,        \* the run of train_model(): pc, locals, return value
    trainLog,       \* what the finished runs of train_model() reported
    npRandom,       \* the process-wide random state of numpy
    evalOut,        \* the outcome of comprehensive_evaluation()
    demo,           \* the run of demo.py main(): pc, stages run, banner
    modelBefore,    \* models/mouse_model.pkl as the train_model() call found it
    gen             \* the call of generate_human_session or _bot_session

\* the state of train_model.py, test_predictions.py and demo.py
others ==
    <<dataJson, trainer, trainLog, npRandom, evalOut, demo, modelBefore,
      gen>>

vars ==
    <<exData, exHint, exOut, sessionsFile, builder, csvFile, modelFile,
      dataFile, pout, csvColumns, others>>

\* --------------------------------------------------- inputs of the scripts
SessionTypes == {"human", "bot", "crawler"}

P(x, y, t) == [x |-> x, y |-> y, t |-> t]

\* movements of the sessions the builder reads: two plain ones, one whose
\* timestamps are all equal, one with a single point
BuilderMovements ==
    {<<P(0, 0, 0), P(3, 4, 1)>>,
     <<P(0, 0, 0), P(3, 0, 2), P(3, 4, 2)>>,
     <<P(0, 0, 1), P(3, 0, 1)>>,
     <<P(3, 4, 0)>>}

\* metadata of a record: none, without session_duration, or with one
MetadataShapes == {<<FALSE, None>>} \cup {<<TRUE, h>> : h \in Hints}

SessionsAt(id, movementSet) ==
    {Session(id, ty, md[1], md[2], mv) :
        ty \in SessionTypes, md \in MetadataShapes, mv \in movementSet}

\* a sessions file of the records l, each carrying its position as its
\* unique session_id
SessionsFileOf(l) ==
    File([i \in 1..Len(l) |-> [l[i] EXCEPT !.session_id = i]])

\* the forests a training run may have saved
Trees ==
    {Tree(4, <<1, 1>>, <<1, 1>>, <<0, 1>>),
     Tree(3, <<5, 2>>, <<1, 1>>, <<1, 2>>),
     Tree(2, <<3000, 1>>, <<0, 1>>, <<1, 1>>),
     Tree(1, <<500, 1>>, <<1, 2>>, <<0, 1>>)}
Forests == [1..NumTrees -> Trees]
\* the forests of one repeated tree, for the runs that do not vary the model
SessionForests == {f \in Forests : \A k \in 1..NumTrees : f[k] = f[1]}
ModelFiles == {NoFile} \cup {File(f) : f \in Forests}

PredictMovements ==
    {tr \in Trajectories : Len(tr) <= 2} \cup BuilderMovements
\* records whose metadata carries the span of their own timestamps, as a
\* recorder that measures from the first point to the last writes it
SpanSessions ==
    {Session(1, "human", TRUE, SessionDuration(mv, None), mv) :
        mv \in PredictMovements}
DataFiles ==
    {NoFile}
    \cup {File(BareDoc(mv)) : mv \in PredictMovements}
    \cup {File(RecordDoc(s)) : s \in SessionsAt(1, PredictMovements)}
    \cup {File(RecordDoc(s)) : s \in SpanSessions}

\* the feature tables train_model.py may find: rows of two kinds of
\* session, under any labels, and headers that are the builder's or are not
TrainFeatures ==
    {[std_speed |-> [nan |-> FALSE, var |-> <<0, 1>>],
      max_speed |-> <<10, 1>>, num_points |-> 2,
      session_duration |-> <<5, 2>>],
     [std_speed |-> [nan |-> FALSE, var |-> <<4, 1>>],
      max_speed |-> <<50, 1>>, num_points |-> 3,
      session_duration |-> <<1, 2>>]}
\* a table of the given labels, its rows the two kinds of session in turn
TableOf(labels) ==
    File([i \in 1..Len(labels) |->
             Row(CHOOSE f \in TrainFeatures : f.num_points = 2 + (i % 2),
                 labels[i], i)])

\* a table of bots rows of label 1 followed by humans rows of label 0
BlockTable(bots, humans) ==
    TableOf([i \in 1..(bots + humans) |-> IF i <= bots THEN 1 ELSE 0])

Headers ==
    {RowKeys,
     <<"max_speed", "std_speed", "num_points", "session_duration", "label",
       "session_id">>,
     <<"std_speed", "max_speed", "num_points", "label", "session_id">>,
     <<"std_speed", "max_speed", "num_points", "session_duration",
       "click_count", "label", "session_id">>,
     <<"std_speed", "max_speed", "num_points", "session_duration",
       "session_id">>}


\* the sessions of the whole pipeline: slow trajectories of 2 and 3 points,
\* of a bot and of a human in turn, and the orders their JSON text is
\* written in
SchemaMovements ==
    {<<P(0, 0, 0), P(3, 0, 1000)>>,
     <<P(0, 0, 0), P(3, 4, 1000), P(3, 0, 2000)>>}
SchemaSession(i, mv) ==
    Session(i, IF i % 2 = 1 THEN "bot" ELSE "human", TRUE,
            IF i % 2 = 1 THEN None ELSE <<5, 2>>, mv)
\* a session as generate_sessions.py writes it: its metadata holds the
\* duration, which for a bot is the span of its timestamps
GeneratedSession(i, mv) ==
    Session(i, IF i % 2 = 1 THEN "bot" ELSE "human", TRUE,
            IF i % 2 = 1 THEN SessionDuration(mv, None) ELSE <<5, 2>>, mv)
PointKeyOrders == {<<"x", "y", "t">>, <<"t", "y", "x">>}
MemberOrders ==
    {<<"session_id", "type", "metadata", "movements">>,
     <<"movements", "type", "session_id">>}

\* ------------------------------------ the other scripts, before they run
TrainerIdle ==
    TrainOut("idle", "pending", "none", <<>>, NoSplit, <<>>, None, <<>>, <<>>)
EvalPending == EvalOut("pending", "none", None, <<>>, FALSE)
DemoIdle == DemoOut("idle", <<>>, <<>>, FALSE)

OthersIdle ==
    /\ dataJson = None
    /\ trainer = TrainerIdle
    /\ trainLog = <<>>
    /\ npRandom = 0
    /\ modelBefore = NoFile
    /\ gen = GenIdle
    /\ evalOut = EvalPending
    /\ demo = DemoIdle

\* --------------------------------------------------------------- actions
\* one call extract_features(exData, exHint)
ExtractFeatures ==
    /\ exOut = NotRun
    /\ exOut' = extract_features(exData, exHint)
    /\ UNCHANGED <<exData, exHint, sessionsFile, builder, csvFile, modelFile,
                   dataFile, pout,
                   csvColumns, others>>

\* lines 53-62: the script stops with exit(1) when the sessions file is
\* missing, and loads it otherwise
BuilderStart ==
    /\ builder.pc = "start"
    /\ builder' = [builder EXCEPT
                     !.pc = IF sessionsFile.exists THEN "loop" ELSE "exit1",
                     !.i = 1]
    /\ UNCHANGED <<exData, exHint, exOut, sessionsFile, csvFile, modelFile,
                   dataFile, pout,
                   csvColumns, others>>

\* lines 65-74: one pass of "for session in sessions"; an exception of the
\* body ends the script
BuilderStep ==
    /\ builder.pc = "loop"
    /\ builder.i <= Len(sessionsFile.content)
    /\ LET r == BuildRow(sessionsFile.content[builder.i])
       IN  builder' =
             [pc |-> IF r.raised = "none" THEN "loop" ELSE "crashed",
              i |-> IF r.raised = "none" THEN builder.i + 1 ELSE builder.i,
              features_data |->
                  IF r.raised = "none"
                  THEN AppendRow(builder.features_data, r.row)
                  ELSE builder.features_data,
              raised |-> r.raised,
              session_duration |-> r.session_duration,
              called |-> r.called]
    /\ UNCHANGED <<exData, exHint, exOut, sessionsFile, csvFile, modelFile,
                   dataFile, pout,
                   csvColumns, others>>

\* lines 77-78: df = pd.DataFrame(features_data); df.to_csv(...)
BuilderSave ==
    /\ builder.pc = "loop"
    /\ builder.i > Len(sessionsFile.content)
    /\ csvFile' = File(builder.features_data)
    /\ csvColumns' = DataFrameColumns(builder.features_data)
    /\ builder' = [builder EXCEPT !.pc = "saved"]
    /\ UNCHANGED <<exData, exHint, exOut, sessionsFile, modelFile, dataFile,
                   pout,
                   others>>

\* lines 80-95: the statistics; df['label'] raises KeyError on a table
\* built from no row at all
BuilderReport ==
    /\ builder.pc = "saved"
    /\ builder' =
         IF builder.features_data = <<>>
         THEN [builder EXCEPT !.pc = "crashed", !.raised = "KeyError"]
         ELSE [builder EXCEPT !.pc = "done"]
    /\ UNCHANGED <<exData, exHint, exOut, sessionsFile, csvFile, modelFile,
                   dataFile, pout,
                   csvColumns, others>>

\* one call predict_movement(dataFile)
PredictMovement ==
    /\ pout = PredictPending
    /\ pout' = predict_movement(dataFile, modelFile)
    /\ UNCHANGED <<exData, exHint, exOut, sessionsFile, builder, csvFile,
                   modelFile, dataFile,
                   csvColumns, others>>

\* ---------------------------------------------------------- train_model.py
\* lines 92-96: the script starts and calls train_model(); the process-wide
\* generator of the new process is in a state of its own
TrainModelMain ==
    /\ trainer.pc \in {"idle", "done"}
    /\ Len(trainLog) < MaxRuns
    /\ trainer' = [TrainerIdle EXCEPT !.pc = "start"]
    /\ npRandom' \in 0..MaxRandom
    /\ modelBefore' = modelFile
    /\ UNCHANGED <<exData, exHint, exOut, sessionsFile, builder, csvFile,
                   modelFile, dataFile, pout, csvColumns, dataJson, trainLog,
                   evalOut, demo, gen>>

\* lines 17-62, and lines 83-90 when one of them raises
TrainModelCompute ==
    /\ trainer.pc = "start"
    /\ trainer' = TrainCompute(csvFile, csvColumns, npRandom)
    /\ trainLog' = IF trainer'.pc = "done"
                   THEN Append(trainLog, LogEntry(trainer', npRandom))
                   ELSE trainLog
    /\ UNCHANGED <<exData, exHint, exOut, sessionsFile, builder, csvFile,
                   modelFile, dataFile, pout, csvColumns, dataJson, npRandom,
                   evalOut, demo, modelBefore, gen>>

\* lines 66-67: joblib.dump opens models/mouse_model.pkl for writing, which
\* empties the file of that name
TrainModelDump ==
    /\ trainer.pc = "save"
    /\ modelFile' = File(<<>>)
    /\ trainer' = [trainer EXCEPT !.pc = "dump"]
    /\ UNCHANGED <<exData, exHint, exOut, sessionsFile, builder, csvFile,
                   dataFile, pout, csvColumns, dataJson, trainLog, npRandom,
                   evalOut, demo, modelBefore, gen>>

\* line 67 and lines 87-90: joblib.dump cannot open models/mouse_model.pkl
\* for writing (a file or a directory that is not writable); the OSError is
\* caught and train_model returns (None, None)
TrainModelDumpRaises ==
    /\ trainer.pc = "save"
    /\ trainer' = [trainer EXCEPT !.pc = "done", !.ret = "none",
                                  !.raised = "OSError"]
    /\ trainLog' = Append(trainLog, LogEntry(trainer', npRandom))
    /\ UNCHANGED <<exData, exHint, exOut, sessionsFile, builder, csvFile,
                   modelFile, dataFile, pout, csvColumns, dataJson, npRandom,
                   evalOut, demo, modelBefore, gen>>

\* lines 67-68: joblib.dump has written the whole model and closed the file
TrainModelDumped ==
    /\ trainer.pc = "dump"
    /\ modelFile' = File(trainer.model)
    /\ trainer' = [trainer EXCEPT !.pc = "saved"]
    /\ UNCHANGED <<exData, exHint, exOut, sessionsFile, builder, csvFile,
                   dataFile, pout, csvColumns, dataJson, trainLog, npRandom,
                   evalOut, demo, modelBefore, gen>>

\* lines 70-78: return model, accuracy
TrainModelReturn ==
    /\ trainer.pc = "saved"
    /\ trainer' = [trainer EXCEPT !.pc = "done", !.ret = "model"]
    /\ trainLog' = Append(trainLog, LogEntry(trainer', npRandom))
    /\ UNCHANGED <<exData, exHint, exOut, sessionsFile, builder, csvFile,
                   modelFile, dataFile, pout, csvColumns, dataJson, npRandom,
                   evalOut, demo, modelBefore, gen>>

\* lines 80-82: Ctrl+C anywhere in the try block returns (None, None)
TrainModelInterrupt ==
    /\ trainer.pc \in {"start", "save", "dump", "saved"}
    /\ trainer' = [trainer EXCEPT !.pc = "done", !.ret = "none",
                                  !.raised = "KeyboardInterrupt"]
    /\ trainLog' = Append(trainLog, LogEntry(trainer', npRandom))
    /\ UNCHANGED <<exData, exHint, exOut, sessionsFile, builder, csvFile,
                   modelFile, dataFile, pout, csvColumns, dataJson, npRandom,
                   evalOut, demo, modelBefore, gen>>

\* ----------------------------------------------------- test_predictions.py
\* lines 133-135: the script calls comprehensive_evaluation()
ComprehensiveEvaluation ==
    /\ evalOut.ret = "pending"
    /\ evalOut' = comprehensive_evaluation(sessionsFile, modelFile, csvFile,
                                           csvColumns)
    /\ modelFile' = Loaded(modelFile)
    /\ UNCHANGED <<exData, exHint, exOut, sessionsFile, builder, csvFile,
                   dataFile, pout, csvColumns, dataJson, trainer, trainLog,
                   npRandom, demo, modelBefore, gen>>

\* lines 137-141: after an evaluation that returned its metrics the script
\* calls test_individual_sessions()
TestIndividualSessions ==
    /\ evalOut.ret = "metrics"
    /\ ~evalOut.tested
    /\ LET r == test_individual_sessions(sessionsFile, modelFile, dataFile,
                                         pout)
       IN  /\ dataFile' = r.data_file
           /\ pout' = r.out
    /\ evalOut' = [evalOut EXCEPT !.tested = TRUE]
    /\ UNCHANGED <<exData, exHint, exOut, sessionsFile, builder, csvFile,
                   modelFile, csvColumns, dataJson, trainer, trainLog,
                   npRandom, demo, modelBefore, gen>>

\* lines 129-132: the script is run again after it has ended
TestPredictionsAgain ==
    /\ evalOut.ret = "none" \/ evalOut.tested
    /\ evalOut' = EvalPending
    /\ UNCHANGED <<exData, exHint, exOut, sessionsFile, builder, csvFile,
                   modelFile, dataFile, pout, csvColumns, dataJson, trainer,
                   trainLog, npRandom, demo, modelBefore, gen>>

\* predict.py lines 78-109: the script is run again after a call has ended
PredictAgain ==
    /\ pout # PredictPending
    /\ pout' = PredictPending
    /\ UNCHANGED <<exData, exHint, exOut, sessionsFile, builder, csvFile,
                   modelFile, dataFile, csvColumns, dataJson, trainer,
                   trainLog, npRandom, evalOut, demo, modelBefore, gen>>

\* ------------------------------------------------------------------ demo.py
\* the script main() is running, and whether that script has ended
Running(script) ==
    /\ demo.pc = "running"
    /\ demo.ran # <<>>
    /\ demo.ran[Len(demo.ran)] = script

Ended(script) ==
    CASE script = "extract_features.py" ->
            builder.pc \in {"exit1", "crashed", "done"}
      [] script = "train_model.py" -> trainer.pc = "done"
      [] script = "test_predictions.py" ->
            evalOut.ret = "none" \/ evalOut.tested
      [] OTHER -> TRUE

\* lines 61-80: the required files are there, or main() returns
DemoStart ==
    /\ demo.pc = "start"
    /\ \E missing_files \in BOOLEAN :
          demo' = [demo EXCEPT
                     !.pc = IF missing_files THEN "returned" ELSE "ready"]
    /\ UNCHANGED <<exData, exHint, exOut, sessionsFile, builder, csvFile,
                   modelFile, dataFile, pout, csvColumns, dataJson, trainer,
                   trainLog, npRandom, evalOut, modelBefore, gen>>

\* line 29: run_script starts the next script as a process of its own
DemoRunScript ==
    /\ demo.pc = "ready"
    /\ Len(demo.ran) < Len(Scripts)
    /\ LET script == Scripts[Len(demo.ran) + 1]
       IN  /\ demo' = [demo EXCEPT !.pc = "running",
                                   !.ran = Append(demo.ran, script)]
           /\ builder' = IF script = "extract_features.py"
                         THEN [BuilderIdle EXCEPT !.pc = "start"]
                         ELSE builder
           /\ trainer' = IF script = "train_model.py"
                         THEN [TrainerIdle EXCEPT !.pc = "start"]
                         ELSE trainer
           /\ IF script = "train_model.py"
              THEN npRandom' \in 0..MaxRandom
              ELSE npRandom' = npRandom
           /\ modelBefore' = IF script = "train_model.py"
                             THEN modelFile
                             ELSE modelBefore
           /\ evalOut' = IF script = "test_predictions.py"
                         THEN EvalPending
                         ELSE evalOut
    /\ UNCHANGED <<exData, exHint, exOut, sessionsFile, csvFile, modelFile,
                   dataFile, pout, csvColumns, dataJson, trainLog, gen>>

\* generate_sessions.py writes data/all_sessions.json
GenerateSessions ==
    /\ Running("generate_sessions.py")
    /\ ~sessionsFile.exists
    /\ \E l \in [1..2 -> SchemaMovements] :
          sessionsFile' =
             SessionsFileOf([i \in 1..4 |->
                                GeneratedSession(i, l[2 - (i % 2)])])
    /\ UNCHANGED <<exData, exHint, exOut, builder, csvFile, modelFile,
                   dataFile, pout, csvColumns, others>>

\* the steps of the script that is running
DemoScriptStep ==
    \/ /\ Running("extract_features.py")
       /\ BuilderStart \/ BuilderStep \/ BuilderSave \/ BuilderReport
    \/ /\ Running("train_model.py")
       /\ \/ TrainModelCompute
          \/ TrainModelDump
          \/ TrainModelDumpRaises
          \/ TrainModelDumped
          \/ TrainModelReturn
          \/ TrainModelInterrupt
    \/ /\ Running("test_predictions.py")
       /\ ComprehensiveEvaluation \/ TestIndividualSessions

\* lines 29-45: the script has ended, or is ended from outside with a
\* return code that is not 0; run_script returns and main() goes on to the
\* next script, to the summary after the last one, or returns
DemoScriptExit ==
    /\ demo.pc = "running"
    /\ \E killed \in BOOLEAN :
          LET script == demo.ran[Len(demo.ran)]
              returncode == IF killed THEN 1 ELSE ReturnCode(script, builder)
          IN  /\ killed \/ Ended(script)
              /\ script = "generate_sessions.py" =>
                    (killed \/ sessionsFile.exists)
              /\ demo' =
                    [demo EXCEPT
                       !.rcs = Append(demo.rcs, returncode),
                       !.pc = IF ~RunScript(returncode) THEN "returned"
                              ELSE IF Len(demo.ran) = Len(Scripts)
                              THEN "summary"
                              ELSE "ready"]
    /\ UNCHANGED <<exData, exHint, exOut, sessionsFile, builder, csvFile,
                   modelFile, dataFile, pout, csvColumns, dataJson, trainer,
                   trainLog, npRandom, evalOut, modelBefore, gen>>

\* lines 107-110: the banner of a completed demo
DemoSummary ==
    /\ demo.pc = "summary"
    /\ demo' = [demo EXCEPT !.pc = "returned", !.banner = TRUE]
    /\ UNCHANGED <<exData, exHint, exOut, sessionsFile, builder, csvFile,
                   modelFile, dataFile, pout, csvColumns, dataJson, trainer,
                   trainLog, npRandom, evalOut, modelBefore, gen>>

\* ------------------------------------------------------ generate_sessions.py
\* the clock int(time.time() * 1000) of lines 16 and 58
Clock == {10000, 1000000}

\* lines 12-22: a call generate_human_session(session_id)
GenerateHumanSession ==
    /\ gen.pc = "idle"
    /\ \E session_id \in {1}, rng \in 0..MaxSeed, now \in Clock :
       \E j \in 1..Len(HumanNumPoints) :
          gen' = HumanLocals(session_id, rng, now, HumanNumPoints[j])
    /\ UNCHANGED <<exData, exHint, exOut, sessionsFile, builder, csvFile,
                   modelFile, dataFile, pout, csvColumns, dataJson, trainer,
                   trainLog, npRandom, evalOut, demo, modelBefore>>

\* lines 24-39: one pass of its loop
HumanLoop ==
    /\ gen.pc = "human loop"
    /\ gen.i < gen.num_points
    /\ gen' = HumanPoint(gen)
    /\ UNCHANGED <<exData, exHint, exOut, sessionsFile, builder, csvFile,
                   modelFile, dataFile, pout, csvColumns, dataJson, trainer,
                   trainLog, npRandom, evalOut, demo, modelBefore>>

\* lines 41-51: the loop has ended and the session is returned
HumanReturn ==
    /\ gen.pc = "human loop"
    /\ gen.i = gen.num_points
    /\ gen' = [gen EXCEPT !.pc = "returned", !.session = HumanSession(gen)]
    /\ UNCHANGED <<exData, exHint, exOut, sessionsFile, builder, csvFile,
                   modelFile, dataFile, pout, csvColumns, dataJson, trainer,
                   trainLog, npRandom, evalOut, demo, modelBefore>>

\* lines 53-62: a call generate_bot_session(session_id)
GenerateBotSession ==
    /\ gen.pc = "idle"
    /\ \E session_id \in {1}, rng \in 0..MaxSeed, now \in Clock :
       \E pattern_type \in PatternTypes :
       \E j \in 1..Len(BotNumPoints), h \in 1..Len(TimeIntervals) :
          gen' = BotLocals(session_id, rng, now, pattern_type,
                           BotNumPoints[j], TimeIntervals[h])
    /\ UNCHANGED <<exData, exHint, exOut, sessionsFile, builder, csvFile,
                   modelFile, dataFile, pout, csvColumns, dataJson, trainer,
                   trainLog, npRandom, evalOut, demo, modelBefore>>

\* lines 64-92: one pass of the loop of the pattern drawn
BotLoop ==
    /\ gen.pc = "bot loop"
    /\ gen.i < gen.num_points
    /\ gen' = BotPoint(gen)
    /\ UNCHANGED <<exData, exHint, exOut, sessionsFile, builder, csvFile,
                   modelFile, dataFile, pout, csvColumns, dataJson, trainer,
                   trainLog, npRandom, evalOut, demo, modelBefore>>

\* lines 94-104: the loop has ended and the session is returned
BotReturn ==
    /\ gen.pc = "bot loop"
    /\ gen.i = gen.num_points
    /\ gen' = [gen EXCEPT !.pc = "returned", !.session = BotSession(gen)]
    /\ UNCHANGED <<exData, exHint, exOut, sessionsFile, builder, csvFile,
                   modelFile, dataFile, pout, csvColumns, dataJson, trainer,
                   trainLog, npRandom, evalOut, demo, modelBefore>>

\* -------------------------------------------------------- specifications
\* The extractor as a function of its arguments.
InitExtract ==
    /\ exData \in Trajectories \cup LineTrajectories
    /\ exHint \in Hints
    /\ exOut = NotRun
    /\ sessionsFile = NoFile
    /\ builder = BuilderIdle
    /\ csvFile = NoFile
    /\ modelFile = NoFile
    /\ dataFile = NoFile
    /\ pout = PredictPending
    /\ csvColumns = <<>>
    /\ OthersIdle

NextExtract == ExtractFeatures

Spec == InitExtract /\ [][NextExtract]_vars

\* The dataset builder script over a sessions file.
InitBuild ==
    /\ exData = <<>>
    /\ exHint = None
    /\ exOut = NotRun
    /\ \/ sessionsFile = NoFile
       \/ \E n \in 0..MaxSessions :
             \E l \in [1..n -> SessionsAt(0, BuilderMovements)] :
                sessionsFile = SessionsFileOf(l)
    /\ builder = [BuilderIdle EXCEPT !.pc = "start"]
    /\ csvFile = NoFile
    /\ modelFile = NoFile
    /\ dataFile = NoFile
    /\ pout = PredictPending
    /\ csvColumns = <<>>
    /\ OthersIdle

NextBuild == BuilderStart \/ BuilderStep \/ BuilderSave \/ BuilderReport

SpecBuild == InitBuild /\ [][NextBuild]_vars

\* predict_movement over a model file and a data file.
InitPredict ==
    /\ exData = <<>>
    /\ exHint = None
    /\ exOut = NotRun
    /\ sessionsFile = NoFile
    /\ builder = BuilderIdle
    /\ csvFile = NoFile
    /\ modelFile \in ModelFiles
    /\ dataFile \in DataFiles
    /\ pout = PredictPending
    /\ csvColumns = <<>>
    /\ OthersIdle

NextPredict == PredictMovement

SpecPredict == InitPredict /\ [][NextPredict]_vars

\* One session record, built into a row by the dataset builder and given
\* as it is to predict_movement (as test_predictions.py does with json.dump).
InitSession ==
    /\ exData = <<>>
    /\ exHint = None
    /\ exOut = NotRun
    /\ \E s \in SessionsAt(1, PredictMovements) :
          /\ sessionsFile = File(<<s>>)
          /\ dataFile = File(RecordDoc(s))
    /\ builder = [BuilderIdle EXCEPT !.pc = "start"]
    /\ csvFile = NoFile
    /\ modelFile \in {File(f) : f \in SessionForests}
    /\ pout = PredictPending
    /\ csvColumns = <<>>
    /\ OthersIdle

NextSession ==
    BuilderStart \/ BuilderStep \/ BuilderSave \/ BuilderReport
    \/ PredictMovement

SpecSession == InitSession /\ [][NextSession]_vars

\* train_model.py, run MaxRuns times over a feature table.
InitTrain ==
    /\ exData = <<>>
    /\ exHint = None
    /\ exOut = NotRun
    /\ sessionsFile = NoFile
    /\ builder = BuilderIdle
    /\ \/ csvFile = NoFile /\ csvColumns = <<>>
       \/ \E n \in 0..MaxRows : \E labels \in [1..n -> {0, 1}] :
             /\ csvFile = TableOf(labels)
             /\ csvColumns \in IF n = 0 THEN {<<>>} ELSE Headers
       \/ \E bots \in 2..MaxClassRows : \E humans \in 2..MaxClassRows :
             /\ csvFile = BlockTable(bots, humans)
             /\ csvColumns \in Headers
       \/ csvFile = BlockTable(HalfRows, HalfRows) /\ csvColumns = RowKeys
    /\ modelFile = NoFile
    /\ dataFile = NoFile
    /\ pout = PredictPending
    /\ OthersIdle

NextTrain ==
    \/ TrainModelMain
    \/ TrainModelCompute
    \/ TrainModelDump
    \/ TrainModelDumped
    \/ TrainModelReturn

SpecTrain == InitTrain /\ [][NextTrain]_vars

\* The pipeline: the builder writes the feature table of the sessions,
\* train_model.py trains on it, and predict_movement classifies one of the
\* sessions, read from its JSON text.
InitSchema ==
    /\ exData = <<>>
    /\ exHint = None
    /\ exOut = NotRun
    /\ \E l \in [1..2 -> SchemaMovements] :
          sessionsFile =
             SessionsFileOf([i \in 1..4 |-> SchemaSession(i, l[2 - (i % 2)])])
    /\ builder = [BuilderIdle EXCEPT !.pc = "start"]
    /\ csvFile = NoFile
    /\ csvColumns = <<>>
    /\ modelFile = NoFile
    /\ \E i \in 1..2 : \E keys \in PointKeyOrders :
          \/ dataJson = JsonList(PointsText(sessionsFile.content[i].movements,
                                            keys))
          \/ \E members \in MemberOrders :
                dataJson = RecordText(sessionsFile.content[i], members, keys)
    /\ dataFile = File(LoadJson(dataJson))
    /\ pout = PredictPending
    /\ trainer = TrainerIdle
    /\ trainLog = <<>>
    /\ npRandom = 0
    /\ modelBefore = NoFile
    /\ gen = GenIdle
    /\ evalOut = EvalPending
    /\ demo = DemoIdle

NextSchema ==
    \/ BuilderStart
    \/ BuilderStep
    \/ BuilderSave
    \/ BuilderReport
    \/ trainLog = <<>> /\ TrainModelMain
    \/ TrainModelCompute
    \/ TrainModelDump
    \/ TrainModelDumped
    \/ TrainModelReturn
    \/ PredictMovement

SpecSchema == InitSchema /\ [][NextSchema]_vars

\* train_model.py, interrupted or not, while predict.py and
\* test_predictions.py run over the same files.
InitPublish ==
    /\ exData = <<>>
    /\ exHint = None
    /\ exOut = NotRun
    /\ \E l \in [1..2 -> SchemaMovements] : \E h \in {None, <<5, 2>>} :
          sessionsFile =
             SessionsFileOf([i \in 1..4 |->
                [SchemaSession(i, l[2 - (i % 2)])
                    EXCEPT !.session_duration = h]])
    /\ builder = BuilderIdle
    /\ csvFile = File([i \in 1..Len(sessionsFile.content) |->
                          BuildRow(sessionsFile.content[i]).row])
    /\ csvColumns = RowKeys
    /\ modelFile \in {NoFile} \cup {File(f) : f \in SessionForests}
    /\ dataFile = File(BareDoc(sessionsFile.content[1].movements))
    /\ pout = PredictPending
    /\ OthersIdle

NextPublish ==
    \/ trainLog = <<>> /\ TrainModelMain
    \/ TrainModelCompute
    \/ TrainModelDump
    \/ TrainModelDumpRaises
    \/ TrainModelDumped
    \/ TrainModelReturn
    \/ TrainModelInterrupt
    \/ PredictMovement
    \/ PredictAgain
    \/ ComprehensiveEvaluation
    \/ TestIndividualSessions
    \/ TestPredictionsAgain

SpecPublish == InitPublish /\ [][NextPublish]_vars

\* demo.py: main() runs the five scripts one after the other.
InitDemo ==
    /\ exData = <<>>
    /\ exHint = None
    /\ exOut = NotRun
    /\ sessionsFile = NoFile
    /\ builder = BuilderIdle
    /\ csvFile = NoFile
    /\ csvColumns = <<>>
    /\ modelFile \in {NoFile} \cup {File(f) : f \in SessionForests}
    /\ dataFile = NoFile
    /\ pout = PredictPending
    /\ dataJson = None
    /\ trainer = TrainerIdle
    /\ trainLog = <<>>
    /\ npRandom = 0
    /\ modelBefore = NoFile
    /\ gen = GenIdle
    /\ evalOut = EvalPending
    /\ demo = [DemoIdle EXCEPT !.pc = "start"]

NextDemo ==
    \/ DemoStart
    \/ DemoRunScript
    \/ GenerateSessions
    \/ DemoScriptStep
    \/ DemoScriptExit
    \/ DemoSummary

SpecDemo == InitDemo /\ [][NextDemo]_vars

\* generate_sessions.py: one call of either generator.
InitGenerate ==
    /\ exData = <<>>
    /\ exHint = None
    /\ exOut = NotRun
    /\ sessionsFile = NoFile
    /\ builder = BuilderIdle
    /\ csvFile = NoFile
    /\ csvColumns = <<>>
    /\ modelFile = NoFile
    /\ dataFile = NoFile
    /\ pout = PredictPending
    /\ OthersIdle

NextGenerate ==
    \/ GenerateHumanSession
    \/ HumanLoop
    \/ HumanReturn
    \/ GenerateBotSession
    \/ BotLoop
    \/ BotReturn

SpecGenerate == InitGenerate /\ [][NextGenerate]_vars


\* ---------------------------------------------------------------- claims
Called == exOut # NotRun

\* the consecutive pairs of a trajectory, by the index of their second point
Pairs(data) == 2..Len(data)
ZeroDeltaPairs(data) == {i \in Pairs(data) : data[i].t = data[i - 1].t}
NonPositiveDeltaPairs(data) == {i \in Pairs(data) : data[i].t <= data[i - 1].t}

\* C1, as claimed: on a trajectory of at least 2 points a pair is skipped
\* exactly when its elapsed time is zero, so the number of speed samples is
\* num_points - 1 - (number of pairs with equal timestamps).
C1_SkipExactlyZeroDelta ==
    (Called /\ Len(exData) >= 2) =>
        exOut.samples = Len(exData) - 1 - Cardinality(ZeroDeltaPairs(exData))

\* C1, amended: a pair is skipped exactly when its elapsed time is zero or
\* negative, so the number of speed samples is num_points - 1 - (number of
\* pairs whose second timestamp is not later than the first); num_points
\* counts every input point.
C1_SkipNonPositiveDelta ==
    (Called /\ Len(exData) >= 2) =>
        /\ exOut.samples =
              Len(exData) - 1 - Cardinality(NonPositiveDeltaPairs(exData))
        /\ exOut.raised = "none" => exOut.features.num_points = Len(exData)

C1_Witness ==
    /\ Called
    /\ exOut.raised = "none"
    /\ exOut.samples = 1
    /\ Len(exData) = 3
    /\ \E i \in Pairs(exData) : exData[i].t < exData[i - 1].t

\* C2, as claimed: a trajectory of at least 2 points that yields no speed
\* sample ends extract_features in DegenerateSessionError.
C2_DegenerateSessionError ==
    (Called /\ Len(exData) >= 2 /\ exOut.samples = 0) =>
        exOut.raised = "DegenerateSessionError"

\* C3, as claimed: with fewer than 2 points extract_features fails with
\* InsufficientDataError, and the duration of the hint-absent path is 0.
C3_InsufficientDataError ==
    (Called /\ Len(exData) < 2) =>
        /\ exOut.raised = "InsufficientDataError"
        /\ exHint = None => exOut.duration = <<0, 1>>

\* C5: when extraction succeeds on at least 2 points, session_duration is
\* the hint itself when one is given (whatever the timestamps are) and
\* (t_last - t_first) / 1000 when none is given.
C5_SessionDuration ==
    (Called /\ Len(exData) >= 2 /\ exOut.raised = "none") =>
        LET d == exOut.features.session_duration
            span == exData[Len(exData)].t - exData[1].t
        IN  /\ exHint # None => d = exHint
            /\ exHint = None => FMul(d, <<1000, 1>>) = <<span, 1>>

C5_Witness ==
    /\ Called
    /\ exOut.raised = "none"
    /\ exHint = <<0, 1>>
    /\ exData[Len(exData)].t > exData[1].t
    /\ exOut.features.session_duration = <<0, 1>>

\* a constant positive time step and a constant displacement per step
ConstantStepLine(data) ==
    /\ Len(data) >= 2
    /\ data[2].t > data[1].t
    /\ \A i \in Pairs(data) :
          /\ data[i].t - data[i - 1].t = data[2].t - data[1].t
          /\ data[i].x - data[i - 1].x = data[2].x - data[1].x
          /\ data[i].y - data[i - 1].y = data[2].y - data[1].y

FivePointLine == Line(5, 0, 100, <<10, 0>>)

Predicted == pout # PredictPending

\* the model and the data file exist and the trajectory has fewer than 2 points
ShortInput ==
    /\ modelFile.exists
    /\ dataFile.exists
    /\ Len(dataFile.content.movements) < 2

\* C4, as claimed: on a trajectory of a single point (or none)
\* predict_movement raises InsufficientDataError.
C4_RaisesInsufficientData ==
    (Predicted /\ ShortInput) => pout.raised = "InsufficientDataError"

\* C4, amended: on a trajectory of a single point (or none)
\* predict_movement raises nothing: it reports that at least 2 movement
\* points are needed and returns (None, None), so no label and no
\* confidence, without calling the extractor or querying the model.
C4_ReturnsNoneOnShortInput ==
    (Predicted /\ ShortInput) =>
        /\ pout.ret = "none"
        /\ pout.raised = "none"
        /\ pout.error = "need at least 2 movement points"
        /\ pout.label = -1
        /\ pout.confidence = None
        /\ ~pout.extracted
        /\ ~pout.queried

C4_Witness ==
    /\ Predicted
    /\ ShortInput
    /\ Len(dataFile.content.movements) = 1
    /\ pout.ret = "none"

\* the session a row of the table was built from
SessionOf(row) == sessionsFile.content[row.session_id]

\* C7, as claimed: a row is labelled from the type alone, 1 for 'bot' and
\* 0 for 'human'; a session of any other type is a fatal error and gets no
\* row.
C7_UnknownTypeIsFatal ==
    \A k \in 1..Len(builder.features_data) :
        LET row == builder.features_data[k]
        IN  /\ SessionOf(row).type \in {"bot", "human"}
            /\ row.label = 1 <=> SessionOf(row).type = "bot"

\* C8: when the builder has written the feature table, the table has one
\* row per session of the sessions file and row i carries the session_id,
\* the label and the features of session i.
C8_RowPerSessionInOrder ==
    csvFile.exists =>
        LET rows == csvFile.content
            sessions == sessionsFile.content
        IN  /\ Len(rows) = Len(sessions)
            /\ \A i \in 1..Len(rows) :
                  LET e == extract_features(sessions[i].movements,
                                            sessions[i].session_duration)
                  IN  /\ rows[i].session_id = sessions[i].session_id
                      /\ sessions[i].type = "bot" => rows[i].label = 1
                      /\ sessions[i].type = "human" => rows[i].label = 0
                      /\ rows[i].std_speed = e.features.std_speed
                      /\ rows[i].max_speed = e.features.max_speed
                      /\ rows[i].num_points = e.features.num_points
                      /\ rows[i].session_duration = e.features.session_duration

C8_Witness ==
    /\ csvFile.exists
    /\ Len(csvFile.content) = 2
    /\ csvFile.content[1].label = 1
    /\ csvFile.content[2].label = 0
    /\ csvFile.content[1].num_points # csvFile.content[2].num_points

BuilderEnded == builder.pc \in {"done", "crashed", "exit1"}

\* C9, as claimed: for every session record, also one without metadata,
\* the builder and the predictor pass the same duration hint to the
\* extractor, and the features of the row equal those the predictor computes.
C9_SameHintAndFeatures ==
    (BuilderEnded /\ Predicted) =>
        /\ builder.raised # "KeyError"
        /\ builder.session_duration = pout.session_duration
        /\ (csvFile.exists /\ pout.extracted) =>
              LET row == csvFile.content[1]
              IN  /\ row.std_speed = pout.features.std_speed
                  /\ row.max_speed = pout.features.max_speed
                  /\ row.num_points = pout.features.num_points
                  /\ row.session_duration = pout.features.session_duration

\* the larger of the two class probabilities
MaxProba(p) == IF FLess(p[1], p[2]) THEN p[2] ELSE p[1]

\* C10: a returned decision carries as confidence the larger class
\* probability as a percentage, between 50 and 100, and as label the class
\* of that probability: 1 (bot) only if P(bot) >= P(human).
C10_ConfidenceAndLabel ==
    pout.ret = "decision" =>
        LET p == pout.probability
        IN  /\ pout.confidence = FMul(MaxProba(p), <<100, 1>>)
            /\ ~FLess(pout.confidence, <<50, 1>>)
            /\ ~FLess(<<100, 1>>, pout.confidence)
            /\ pout.label \in {0, 1}
            /\ p[pout.label + 1] = MaxProba(p)
            /\ pout.label = 1 => ~FLess(p[2], p[1])

C10_Witness ==
    /\ pout.ret = "decision"
    /\ pout.label = 1
    /\ pout.confidence = <<75, 1>>

\* a session record of at least 2 movement points was given, with a model
RecordGiven ==
    /\ modelFile.exists
    /\ dataFile.exists
    /\ dataFile.content.shape = "record"
    /\ Len(dataFile.content.movements) >= 2

\* what predict_movement gives for the bare point sequence of the record
BareOut ==
    predict_movement(File(BareDoc(dataFile.content.movements)), modelFile)

SameDecision(a, b) ==
    /\ a.ret = b.ret
    /\ a.raised = b.raised
    /\ a.label = b.label
    /\ a.confidence = b.confidence

\* the duration between the first and the last point of the record
RecordSpan ==
    LET mv == dataFile.content.movements
    IN  Frac(mv[Len(mv)].t - mv[1].t, 1000)

\* the record has no metadata.session_duration, or one equal to its span
NoOtherDuration ==
    \/ ~dataFile.content.has_metadata
    \/ dataFile.content.session_duration \in {None, RecordSpan}

\* C11, as claimed: for every session record of at least 2 movement points
\* predict_movement returns the same label and the same confidence for the
\* full record as for the bare point sequence of its movements.
C11_SameForRecordAndBare ==
    (Predicted /\ RecordGiven) => SameDecision(pout, BareOut)

\* C11, amended: the label and the confidence are the same for the record
\* and for its bare point sequence whenever the record carries no
\* metadata.session_duration or carries one equal to the span of its
\* timestamps in seconds; any other session_duration replaces the span as
\* the fourth feature and may change both.
C11_SameUnlessOtherDuration ==
    (/\ Predicted
     /\ RecordGiven
     /\ NoOtherDuration) =>
        SameDecision(pout, BareOut)

C11_Witness ==
    /\ Predicted
    /\ RecordGiven
    /\ dataFile.content.has_metadata
    /\ dataFile.content.session_duration = RecordSpan
    /\ pout.ret = "decision"
    /\ pout.label = 1

\* C19: when the model file or the data file is absent predict_movement
\* ends in a not-found outcome: it returns (None, None), so no label and no
\* confidence, raises nothing, names the missing file, the model file
\* before the data file, and neither calls the extractor nor queries the
\* model.
C19_ArtifactNotFound ==
    (Predicted /\ (~modelFile.exists \/ ~dataFile.exists)) =>
        /\ pout.ret = "none"
        /\ pout.raised = "none"
        /\ pout.label = -1
        /\ pout.confidence = None
        /\ ~pout.extracted
        /\ ~pout.queried
        /\ pout.error =
              IF ~modelFile.exists THEN "model file not found"
              ELSE "data file not found"

\* both files are absent and the model file is the one reported
C19_Witness ==
    /\ Predicted
    /\ ~modelFile.exists
    /\ ~dataFile.exists
    /\ pout.error = "model file not found"

\* train_model() has ended over a table whose columns other than label and
\* session_id are not the four features in the order of the input vector
TrainEnded == trainer.pc = "done"
OtherColumns ==
    /\ csvFile.exists
    /\ csvColumns # <<>>
    /\ SelectSeq(csvColumns, LAMBDA c : c \notin {"label", "session_id"})
           # InputColumns

\* C13, as claimed: over a table whose feature columns are not exactly the
\* fixed four in order, train fails with SchemaError, fits no model and
\* saves none.
C13_SchemaErrorOnOtherColumns ==
    (TrainEnded /\ OtherColumns) =>
        /\ trainer.ret = "none"
        /\ trainer.raised = "SchemaError"
        /\ trainer.model = <<>>
        /\ ~modelFile.exists

\* the table has a label and a session_id column and at least one row
LabelledTable ==
    /\ csvFile.exists
    /\ csvFile.content # <<>>
    /\ \E j \in 1..Len(csvColumns) : csvColumns[j] = "label"
    /\ \E j \in 1..Len(csvColumns) : csvColumns[j] = "session_id"

TableLabels == [i \in 1..Len(csvFile.content) |-> csvFile.content[i].label]

LabelCount(c) ==
    Cardinality({i \in 1..Len(TableLabels) : TableLabels[i] = c})

\* the rows of class c a stratified part of n_draws rows would hold
StratifiedShare(c, n_draws) ==
    ApproximateMode(<<LabelCount(0), LabelCount(1)>>, n_draws,
                    RandomSeed)[c + 1]

\* some class would have fewer than 2 rows in the train or in the test part
FewInSomePart ==
    \E c \in 0..1 :
        \/ StratifiedShare(c, NTrain(Len(TableLabels))) < 2
        \/ LabelCount(c) - StratifiedShare(c, NTrain(Len(TableLabels))) < 2

\* C14, as claimed: when the 0.3 stratified split of the table would leave
\* either class fewer than 2 rows in the train or in the test part, train
\* fails with InsufficientSamplesError and returns no model.
C14_InsufficientSamplesError ==
    (TrainEnded /\ LabelledTable /\ FewInSomePart) =>
        /\ trainer.ret = "none"
        /\ trainer.raised = "InsufficientSamplesError"

\* train_test_split has split the table of the run
SplitDone == trainer.split # NoSplit

Range(s) == {s[j] : j \in 1..Len(s)}

\* the rows of class c in a part of the split
PartCount(part, c) ==
    Cardinality({j \in 1..Len(part) : TableLabels[part[j]] = c})

\* count is within one row of the share of class c in a part of size rows
KeepsProportion(count, c, size) ==
    /\ (count - 1) * Len(TableLabels) < LabelCount(c) * size
    /\ LabelCount(c) * size < (count + 1) * Len(TableLabels)

\* C15: the split is a stratified partition of the rows of the table: the
\* train and the test part hold no row twice and no row in common, together
\* they hold every row, the test part is the 0.3 of the table rounded up,
\* and each class has in either part its share of the part to within one
\* row and at least one row; of a table of 50 bot and 50 human rows the test part holds between
\* 14 and 16 rows of each class.
C15_StratifiedPartition ==
    SplitDone =>
        LET train == trainer.split.train
            test == trainer.split.test
            n == Len(TableLabels)
        IN  /\ Range(train) \cap Range(test) = {}
            /\ Range(train) \cup Range(test) = 1..n
            /\ Len(train) + Len(test) = n
            /\ 10 * (Len(test) - 1) < TestSizeTenths * n
            /\ TestSizeTenths * n <= 10 * Len(test)
            /\ \A c \in 0..1 :
                  /\ KeepsProportion(PartCount(train, c), c, Len(train))
                  /\ KeepsProportion(PartCount(test, c), c, Len(test))
                  /\ LabelCount(c) > 0 => PartCount(train, c) >= 1
                  /\ LabelCount(c) > 0 => PartCount(test, c) >= 1
            /\ (LabelCount(0) = 50 /\ LabelCount(1) = 50) =>
                  \A c \in 0..1 : PartCount(test, c) \in 14..16

\* the table of 50 bot and 50 human rows was split, 15 of each to the test
C15_Witness ==
    /\ SplitDone
    /\ LabelCount(0) = 50
    /\ LabelCount(1) = 50
    /\ Len(trainer.split.train) = 70
    /\ PartCount(trainer.split.test, 1) = 15

Orders(n) == {f \in [1..n -> 1..n] : \A i, j \in 1..n : f[i] = f[j] => i = j}

Reordered(obj, order) == [j \in 1..Len(obj) |-> obj[order[j]]]

ReorderedPoints(items, order) ==
    [i \in 1..Len(items) |-> Reordered(items[i], order)]

ReorderedText(text, top, order) ==
    [kind |-> text.kind,
     items |-> ReorderedPoints(text.items, order),
     members |->
        [j \in 1..Len(text.members) |->
            IF text.members[top[j]][1] = "movements"
            THEN <<"movements",
                   ReorderedPoints(text.members[top[j]][2], order)>>
            ELSE text.members[top[j]]]]

\* the features of a row of the table
FeaturesOf(row) ==
    [std_speed |-> row.std_speed, max_speed |-> row.max_speed,
     num_points |-> row.num_points, session_duration |-> row.session_duration]

\* the columns of X are those of the input vector, in its order, and the
\* row of X of a session is the input vector of its features
SameColumns ==
    trainer.columns # <<>> =>
        /\ trainer.columns =
              <<"std_speed", "max_speed", "num_points", "session_duration">>
        /\ trainer.columns = InputColumns
        /\ \A i \in 1..Len(csvFile.content) :
              XRow(csvFile.content[i], trainer.columns)
                 = InputVector(FeaturesOf(csvFile.content[i]))

\* a call of predict_movement decides on the document json.load reads from
\* the text, which is the same document for every order the keys of the
\* text are written in
KeyOrderIgnored ==
    pout' # pout =>
        /\ pout' = predict_movement(File(LoadJson(dataJson)), modelFile)
        /\ \A order \in Orders(3) :
              \A top \in Orders(Len(dataJson.members)) :
                 LoadJson(ReorderedText(dataJson, top, order))
                    = LoadJson(dataJson)

\* C12: the columns the Trainer fits on, the table without label and
\* session_id, are std_speed, max_speed, num_points, session_duration in
\* that order, which is the order of the Predictor's input vector, so that
\* the vector of a session is the row the Trainer saw for its features; and
\* the outcome of predict_movement is the same for every order the keys of
\* its JSON input are written in.
C12_SameOrderedSchema == []SameColumns /\ [][KeyOrderIgnored]_vars

\* a model was trained on the builder's table and a session record whose
\* keys are not written in the order x, y, t was classified with it
C12_Witness ==
    /\ trainer.columns = InputColumns
    /\ trainer.ret = "model"
    /\ pout.ret = "decision"
    /\ dataJson.kind = "object"
    /\ dataJson.members[1][1] = "movements"
    /\ dataJson.members[1][2][1][1][1] = "t"

\* C17, as claimed: at every moment models/mouse_model.pkl is absent or is
\* the complete model of a finished training run, and no call of
\* predict_movement or comprehensive_evaluation, during a save, after an
\* interrupted one or at any other time, loads a half-written model.
C17_AbsentOrComplete ==
    /\ modelFile.exists => Len(modelFile.content) = NumTrees
    /\ pout.raised # "EOFError"
    /\ evalOut.raised # "EOFError"

\* C18: a call of predict_movement, of comprehensive_evaluation or of
\* test_individual_sessions, and the start of another one, leaves the model
\* file and the feature table as they are and trains nothing.
C18_ReadOnlyEvaluation ==
    [][(pout' # pout \/ evalOut' # evalOut) =>
          /\ modelFile' = modelFile
          /\ csvFile' = csvFile
          /\ csvColumns' = csvColumns
          /\ trainer' = trainer
          /\ trainLog' = trainLog]_vars

\* an evaluation has returned its metrics and a session was classified,
\* with the model of a training run
C18_Witness ==
    /\ evalOut.ret = "metrics"
    /\ evalOut.tested
    /\ pout.ret = "decision"
    /\ trainer.ret = "model"
    /\ modelFile = File(trainer.model)

\* C20: main() runs generate_sessions, extract_features, train_model,
\* test_predictions and visualize_data in that order and each at most once;
\* a script is started only when every script before it has exited with
\* return code 0; after the first script that exits with another code no
\* script is started and the completion banner is not printed, which it is
\* only after all five have exited with 0.
C20_StagesInOrder ==
    /\ Len(demo.ran) <= Len(Scripts)
    /\ \A k \in 1..Len(demo.ran) : demo.ran[k] = Scripts[k]
    /\ Len(demo.rcs) <= Len(demo.ran)
    /\ Len(demo.ran) <= Len(demo.rcs) + 1
    /\ \A k \in 1..Len(demo.ran) : \A j \in 1..(k - 1) : demo.rcs[j] = 0
    /\ \A j \in 1..Len(demo.rcs) :
          demo.rcs[j] # 0 => (Len(demo.ran) = j /\ ~demo.banner
                              /\ demo.pc = "returned")
    /\ demo.banner =>
          /\ Len(demo.rcs) = Len(Scripts)
          /\ \A j \in 1..Len(demo.rcs) : demo.rcs[j] = 0

\* train_model.py was the first script to exit with a code other than 0
C20_Witness ==
    /\ demo.ran = SubSeq(Scripts, 1, 3)
    /\ demo.rcs = <<0, 0, 1>>
    /\ demo.pc = "returned"
    /\ ~demo.banner

\* train_model.py ran as the third script of this demo and its train_model()
\* returned (None, None)
TrainingFailed ==
    /\ Len(demo.ran) >= 3
    /\ trainer.pc = "done"
    /\ trainer.ret = "none"

\* C21: when train_model fails in the training stage, the demo starts no
\* later script (neither test_predictions.py nor visualize_data.py), does
\* not print the completion banner, and no evaluation of this run returns
\* metrics of a model file left by an earlier run.
C21_TrainingFailureAborts ==
    TrainingFailed =>
       /\ demo.ran = SubSeq(Scripts, 1, 3)
       /\ ~demo.banner
       /\ evalOut = EvalPending

\* C22: a call of train_model that has returned (None, None) has left the
\* model file as it found it, and a call that has returned (model, accuracy)
\* has written that model to the file.
C22_ReturnMatchesPublished ==
    trainer.pc = "done" =>
       /\ trainer.ret = "none" => modelFile = modelBefore
       /\ trainer.ret = "model" => modelFile = File(trainer.model)

\* C23: with the model file and the data file both there, a call of
\* predict_movement lets no exception out and returns (None, None) or a
\* pair of a label 0 or 1 and a confidence between 50 and 100, for a bare
\* point list as for a session record and whatever the timestamps are.
C23_PredictMovementTotal ==
    (Predicted /\ modelFile.exists /\ dataFile.exists) =>
       /\ pout.raised = "none"
       /\ pout.ret \in {"none", "decision"}
       /\ pout.ret = "decision" =>
             /\ pout.label \in {0, 1}
             /\ ~FLess(pout.confidence, <<50, 1>>)
             /\ ~FLess(<<100, 1>>, pout.confidence)

\* the pairs of consecutive points that pass the guard of the extractor's
\* loop, each of which gives one speed sample
KeptPairs(data) == {i \in Pairs(data) : KeepsPair(Elapsed(data, i))}

StrictlyIncreasing(data) == \A i \in Pairs(data) : data[i - 1].t < data[i].t

Generated == gen.pc = "returned"

\* C24: a session returned by generate_human_session or
\* generate_bot_session has at least 30 movement points, timestamps that
\* strictly increase and the type of its generator; it carries the metadata
\* the builder reads, every pair of consecutive points gives a speed sample
\* (num_points - 1 of them, so np.max has something to take), and its
\* label is 0 for a human session and 1 for a bot session.
C24_GeneratedSessionsExtract ==
    Generated =>
       LET session == gen.session
           data == session.movements
       IN  /\ Len(data) >= 30
           /\ Len(data) = gen.num_points
           /\ StrictlyIncreasing(data)
           /\ session.type = gen.type
           /\ session.has_metadata
           /\ KeptPairs(data) = Pairs(data)
           /\ Cardinality(KeptPairs(data)) = Len(data) - 1
           /\ KeptPairs(data) # {}
           /\ Label(session.type) = IF gen.type = "bot" THEN 1 ELSE 0

\* a human session of 200 points has been returned, with the shortest and
\* the longest time step the generator draws in it
C24_Witness ==
    /\ Generated
    /\ gen.type = "human"
    /\ Len(gen.session.movements) = 200
    /\ \E i, j \in Pairs(gen.session.movements) :
          /\ ElapsedMillis(gen.session.movements, i) = <<8, 1>>
          /\ ElapsedMillis(gen.session.movements, j) = <<800, 1>>

====
